---- MODULE Spec2Model ----
\* A model of DYCN_bot/bot.py: the /respond webhook, its two-stage topic
\* classification (weighted fuzzy scoring, then an external oracle) and the
\* resolution of the chosen topic name against the Notion catalog.
\*
\* Python strings are modelled as sequences of one-character tokens, Python
\* None as the value Null, Python dicts as records (a key that is absent from
\* the dict is absent from the record's DOMAIN).
EXTENDS Integers, Sequences, FiniteSets, TLC

\* ---------------------------------------------------------------- bounds
\* Longest catalog (notion_data) the model loads.
MaxCatalog == 4

\* ------------------------------------------------------ program constants
\* bot.py:64  if best_score < 700
Threshold == 700
\* bot.py:69  selected = top_candidates[:4]
TopN == 4
\* bot.py:35, 40, 44  the three weights of weighted_similarity
TopicWeight == 6
KeywordWeight == 4
SummaryWeight == 2
\* bot.py:124  if res.status_code != 200
StatusOK == 200
\* bot.py:164 and bot.py:26  the two error statuses
StatusBadRequest == 400
StatusForbidden == 403

\* ---------------------------------------------------------------- strings
\* Python's None (a JSON null in a response body).
Null == "None"

Whitespace == {" ", "\n"}

\* str.lower() on one character of the model's alphabet.
LowerChar(c) ==
  CASE c = "S" -> "s" [] c = "C" -> "c" [] c = "H" -> "h" [] c = "O" -> "o"
    [] c = "L" -> "l" [] c = "A" -> "a" [] c = "R" -> "r" [] c = "I" -> "i"
    [] c = "P" -> "p" [] c = "V" -> "v" [] c = "N" -> "n" [] c = "E" -> "e"
    [] OTHER -> c

\* str.lower()
Lower(s) == [i \in 1..Len(s) |-> LowerChar(s[i])]

RECURSIVE LStrip(_, _)
\* str.lstrip(chars)
LStrip(s, chars) ==
  IF s # <<>> /\ Head(s) \in chars THEN LStrip(Tail(s), chars) ELSE s

RECURSIVE RStrip(_, _)
\* str.rstrip(chars)
RStrip(s, chars) ==
  IF s # <<>> /\ s[Len(s)] \in chars
  THEN RStrip(SubSeq(s, 1, Len(s) - 1), chars)
  ELSE s

\* str.strip() with no argument strips whitespace; str.strip('"') strips '"'.
Strip(s, chars) == RStrip(LStrip(s, chars), chars)

RECURSIVE FirstLine(_)
\* s.split("\n")[0]
FirstLine(s) ==
  IF s = <<>> \/ Head(s) = "\n" THEN <<>> ELSE <<Head(s)>> \o FirstLine(Tail(s))

RECURSIVE RemoveEmphasis(_)
\* s.replace("**", ""): left to right, non-overlapping
RemoveEmphasis(s) ==
  IF Len(s) < 2 THEN s
  ELSE IF s[1] = "*" /\ s[2] = "*" THEN RemoveEmphasis(SubSeq(s, 3, Len(s)))
  ELSE <<Head(s)>> \o RemoveEmphasis(Tail(s))

\* The literals of bot.py.
Scholarship == <<"S", "c", "h", "o", "l", "a", "r", "s", "h", "i", "p">>
None_ == <<"n", "o", "n", "e">>
\* "\n" followed by the pointing-hand marker and a space (bot.py:184)
Marker == <<"\n", "->", " ">>

\* ---------------------------------------------------------------- catalog
\* Records of the persistence format: topic, summary, reply, link are strings,
\* keywords is a list of strings that may be empty or absent.
EntryScholarship ==
  [topic |-> Scholarship, keywords |-> << <<"f", "u", "n", "d">> >>,
   summary |-> <<"a", "i", "d">>, reply |-> <<"r", "1">>, link |-> <<"l", "1">>]
EntryUpper ==
  [topic |-> <<"S", "C", "H", "O", "L", "A", "R", "S", "H", "I", "P">>,
   keywords |-> <<>>,
   summary |-> <<"o", "l", "d">>, reply |-> <<"r", "2">>, link |-> <<"l", "2">>]
EntryVisa ==
  [topic |-> <<"V", "i", "s", "a">>,
   summary |-> <<"v">>, reply |-> <<"r", "3">>, link |-> <<"l", "3">>]

EntryPool == {EntryScholarship, EntryUpper, EntryVisa}

Catalogs == UNION {[1..n -> EntryPool] : n \in 0..MaxCatalog}

VARIABLES notion_data, pc, request, user_message, fuzz, top_candidates,
          best_score, oracle_calls, res, topic, response

vars == <<notion_data, pc, request, user_message, fuzz, top_candidates,
          best_score, oracle_calls, res, topic, response>>

\* ------------------------------------------------------------ the request
\* os.getenv("BOT_SECRET")
BOT_SECRET == "s3cret"

\* X-Auth-Token header values; Null is a request without the header.
Tokens == {BOT_SECRET, "wrong", Null}

\* The "message" field of the posted JSON.
Messages == {<<>>, <<" ">>, <<"H", "i", " ">>}

\* The "user" field of the posted JSON.
Users == {"U1"}

Requests == [message : Messages, token : Tokens, user : Users]

NoRequest == [message |-> <<>>, token |-> Null, user |-> "unknown"]

\* ------------------------------------------------------ fuzz.partial_ratio
\* rapidfuzz is an external library: its result for one pair of strings is an
\* input of the model, a float in 0..100 kept in half points (200 is 100.0,
\* 99 is 49.5).
TopicRatios == {200}
KeywordRatios == {0, 200}
SummaryRatios == {99, 100}

\* item.get("keywords"): the key is present and the list is not empty.
HasKeywords(item) == "keywords" \in DOMAIN item /\ item.keywords # <<>>

\* The partial_ratio results weighted_similarity obtains for one item: one for
\* the topic, one per keyword (none when item.get("keywords") is falsy), one
\* for the summary.
FuzzOutcomes(item) ==
  [topic : TopicRatios,
   keywords : IF HasKeywords(item)
              THEN [1..Len(item.keywords) -> KeywordRatios]
              ELSE {<<>>},
   summary : SummaryRatios]

\* max(...) over a non-empty sequence of numbers
MaxOf(s) == CHOOSE m \in {s[i] : i \in 1..Len(s)} : \A i \in 1..Len(s) : s[i] <= m

\* weighted_similarity(user_msg, item), given the partial_ratio results r (in
\* half points, hence the division by 2 of the weighted sum).
weighted_similarity(r, item) ==
  LET topic_score == r.topic * TopicWeight
      keyword_score == IF HasKeywords(item)
                       THEN MaxOf(r.keywords) * KeywordWeight
                       ELSE 0
      summary_score == r.summary * SummaryWeight
  IN (topic_score + keyword_score + summary_score) \div 2

\* ---------------------------------------------------------------- ranking
RECURSIVE InsertDescUnstable(_, _)
\* InsertDesc with > for >=: the candidate goes before the elements of equal
\* score (what an unstable or a reversed ascending sort would do).
InsertDescUnstable(c, s) ==
  IF s = <<>> THEN <<c>>
  ELSE IF Head(s).score > c.score
       THEN <<Head(s)>> \o InsertDescUnstable(c, Tail(s))
  ELSE <<c>> \o s

RECURSIVE InsertDesc(_, _)
\* Places candidate c in a list sorted by non-increasing score, after every
\* element whose score is >= c's.
InsertDesc(c, s) ==
  IF s = <<>> THEN <<c>>
  ELSE IF Head(s).score >= c.score THEN <<Head(s)>> \o InsertDesc(c, Tail(s))
  ELSE <<c>> \o s

RECURSIVE SortedDesc(_, _)
\* sorted(scored, key=lambda x: x[0], reverse=True): Python's sort is stable,
\* also under reverse=True. acc holds the sorted prefix.
SortedDesc(scored, acc) ==
  IF scored = <<>> THEN acc
  ELSE SortedDesc(Tail(scored), InsertDesc(Head(scored), acc))

\* The loop of classify_message: (score, item) for every item of notion_data,
\* in catalog order. item is the item's position in notion_data.
Scored(catalog, f) ==
  [i \in 1..Len(catalog) |->
     [score |-> weighted_similarity(f[i], catalog[i]), item |-> i]]

\* ------------------------------------------------------------------ oracle
\* The outcome of requests.post(...) and of reading its body:
\*   kind        "timeout", "connection" (both RequestException) or "response"
\*   status_code res.status_code
\*   shape       the shape of the JSON body
\*   content     choices[0].message.content when shape = "content"
Answers ==
  { <<"V", "i", "s", "a">>,
    <<" ", "v", "i", "s", "a", " ", "\n", "x">>,
    <<"\"", "S", "c", "h", "o", "l", "a", "r", "s", "h", "i", "p", "\"">>,
    <<"S", "C", "H", "O", "L", "A", "R", "S", "H", "I", "P">>,
    <<"*", "*", "V", "i", "s", "a", "*", "*">>,
    <<"*", "*", "\"", "V", "i", "s", "a", "\"", "*", "*">>,
    <<"'", "V", "i", "s", "a", "'">>,
    <<"\"", " ", "V", "i", "s", "a", "\"">>,
    <<"n", "o", "n", "e">>,
    <<"N", "o", "n", "e">>,
    <<"V", "i", "s">>,
    <<" ", "\n">>,
    <<>> }

Shapes == {"invalid", "no_choices", "empty_choices", "no_message",
           "null_message", "no_content", "null_content"}

OracleOutcomes ==
  {[kind |-> k, status_code |-> 0, shape |-> "none", content |-> <<>>] :
     k \in {"timeout", "connection"}}
  \cup {[kind |-> "response", status_code |-> 500,
         shape |-> "invalid", content |-> <<>>]}
  \cup {[kind |-> "response", status_code |-> StatusOK,
         shape |-> sh, content |-> <<>>] : sh \in Shapes}
  \cup {[kind |-> "response", status_code |-> StatusOK,
         shape |-> "content", content |-> a] : a \in Answers}

NoRes == [kind |-> "none", status_code |-> 0, shape |-> "none", content |-> <<>>]

\* bot.py:141  msg.split("\n")[0].strip().strip('"').replace("**", "")
Clean(msg) == RemoveEmphasis(Strip(Strip(FirstLine(msg), Whitespace), {"\""}))

\* OnException without the catch-all "except Exception" clause: the exception
\* leaves classify_message().
OnExceptionRaises == [raised |-> TRUE, value |-> None_]

\* What the except clauses of classify_message do with an exception raised
\* inside the try block: both return "none".
OnRequestException == [raised |-> FALSE, value |-> None_]
OnException == [raised |-> FALSE, value |-> None_]

\* The try block of classify_message on oracle outcome r: the value returned,
\* or raised = TRUE when an exception leaves classify_message.
HandleOracle(r) ==
  IF r.kind \in {"timeout", "connection"} THEN OnRequestException
  ELSE IF r.status_code # StatusOK THEN [raised |-> FALSE, value |-> None_]
  \* res.json() raises on a body that is not JSON
  ELSE IF r.shape = "invalid" THEN OnException
  ELSE IF r.shape \in {"no_choices", "empty_choices"}
       THEN [raised |-> FALSE, value |-> None_]
  \* .get("message", {}) returns None, and None.get raises AttributeError
  ELSE IF r.shape = "null_message" THEN OnException
  \* .get("content", "") returns None, and None.strip raises AttributeError
  ELSE IF r.shape = "null_content" THEN OnException
  ELSE LET msg == IF r.shape = "content"
                  THEN Strip(r.content, Whitespace)
                  ELSE <<>>
       IN IF msg = <<>> THEN [raised |-> FALSE, value |-> None_]
          ELSE [raised |-> FALSE, value |-> Clean(msg)]

\* ---------------------------------------------------------------- respond
NoResponse == [status |-> 0]

\* jsonify({"error": "No message provided"}), 400
BadRequestResponse == [status |-> StatusBadRequest, error |-> "No message provided"]

\* jsonify({"reply": "none", "link": None, "user": user_id})
NoMatchResponse(user) ==
  [status |-> StatusOK, reply |-> None_, link |-> Null, user |-> user]

\* jsonify({"reply": reply, "topic": topic, "user": user_id})
MatchResponse(entry, name, user) ==
  [status |-> StatusOK, reply |-> entry.reply \o Marker \o entry.link,
   topic |-> name, user |-> user]

\* Flask's answer to an exception that leaves the view
FaultResponse == [status |-> 500]

\* FindEntry comparing the topics as written, without .lower().
FindEntryCaseSensitive(catalog, name) ==
  LET hits == {i \in 1..Len(catalog) : catalog[i].topic = name}
  IN IF hits = {} THEN 0 ELSE CHOOSE i \in hits : \A j \in hits : i <= j

\* next((item for item in notion_data if item["topic"].lower() ==
\* topic.lower()), None): the position of the first such item, 0 for None.
FindEntry(catalog, name) ==
  LET hits == {i \in 1..Len(catalog) : Lower(catalog[i].topic) = Lower(name)}
  IN IF hits = {} THEN 0 ELSE CHOOSE i \in hits : \A j \in hits : i <= j

\* bot.py:168-185: the response of respond() for the topic name classify
\* returned.
Resolve(catalog, name, user) ==
  IF Lower(name) = None_ THEN NoMatchResponse(user)
  ELSE LET e == FindEntry(catalog, name)
       IN IF e = 0 THEN NoMatchResponse(user)
          ELSE MatchResponse(catalog[e], name, user)

\* bot.py:20-26: the before-request check. It returns "pass" (None) or the
\* 403 response. bot.py never registers it with the app (there is no
\* @app.before_request), so no action of the model calls it.
verify_token(path, token) ==
  IF path # "/respond" THEN [status |-> 0]
  ELSE IF token # BOT_SECRET
       THEN [status |-> StatusForbidden, error |-> "Unauthorized"]
       ELSE [status |-> 0]

\* ---------------------------------------------------------- state machine
\* pc is the position of the request in respond() / classify_message():
\*   IDLE             no request yet
\*   REJECTED         respond() answered 400 (bot.py:164)
\*   START            classify_message() entered (bot.py:166, 50)
\*   LOCAL_SCORED     top_candidates computed (bot.py:56)
\*   LOW_CONFIDENCE   classify_message() returned the fallback (bot.py:66)
\*   ESCALATED        requests.post() issued, waiting (bot.py:117)
\*   ORACLE_ANSWERED  classify_message() returned from the try block
\*   DONE             respond() returned its response (bot.py:169-185)
\*   FAULT            an exception left respond(): Flask answers 500
Terminal == {"IDLE", "REJECTED", "DONE", "FAULT"}

TypeOK ==
  /\ notion_data \in Catalogs
  /\ pc \in Terminal \cup {"START", "LOCAL_SCORED", "LOW_CONFIDENCE",
                           "ESCALATED", "ORACLE_ANSWERED"}
  /\ request \in Requests \cup {NoRequest}
  /\ oracle_calls \in 0..1
  /\ res \in OracleOutcomes \cup {NoRes}

\* The catalog is loaded once at startup (bot.py:17-18) and never written.
Init ==
  /\ notion_data \in Catalogs
  /\ pc = "IDLE"
  /\ request = NoRequest
  /\ user_message = <<>>
  /\ fuzz = <<>>
  /\ top_candidates = <<>>
  /\ best_score = -1
  /\ oracle_calls = 0
  /\ res = NoRes
  /\ topic = <<>>
  /\ response = NoResponse

\* bot.py:153-166: a POST to /respond reaches respond(); an empty message is
\* answered 400, any other message is handed to classify_message().
RespondBegin(req) ==
  /\ pc \in Terminal
  /\ request' = req
  /\ user_message' = Strip(req.message, Whitespace)
  /\ fuzz' = <<>>
  /\ top_candidates' = <<>>
  /\ best_score' = -1
  /\ oracle_calls' = 0
  /\ res' = NoRes
  /\ topic' = <<>>
  /\ IF user_message' = <<>>
     THEN pc' = "REJECTED" /\ response' = BadRequestResponse
     ELSE pc' = "START" /\ response' = NoResponse
  /\ UNCHANGED notion_data

\* bot.py:51-60: score every item, sort the candidates.
Score(f) ==
  /\ pc = "START"
  /\ fuzz' = f
  /\ top_candidates' = SortedDesc(Scored(notion_data, f), <<>>)
  /\ pc' = "LOCAL_SCORED"
  /\ UNCHANGED <<notion_data, request, user_message, best_score, oracle_calls,
                 res, topic, response>>

\* The exception leaves classify_message() and respond(), whose locals go
\* with their frames.
Fault ==
  /\ pc' = "FAULT"
  /\ response' = FaultResponse
  /\ fuzz' = <<>>
  /\ top_candidates' = <<>>
  /\ UNCHANGED <<notion_data, request, user_message, oracle_calls, topic>>

\* bot.py:62: top_candidates[0] of an empty list raises IndexError.
BestScoreFault ==
  /\ pc = "LOCAL_SCORED"
  /\ top_candidates = <<>>
  /\ UNCHANGED <<best_score, res>>
  /\ Fault

\* bot.py:64: the confidence gate.
Escalates(score) == ~(score < Threshold)

\* Fallback returning "none" below the threshold.
FallbackNone == None_

\* bot.py:66: the topic name returned below the threshold.
Fallback == Scholarship

\* bot.py:62-66: below the threshold classify_message() returns the fallback.
LowConfidence ==
  /\ pc = "LOCAL_SCORED"
  /\ top_candidates # <<>>
  /\ best_score' = top_candidates[1].score
  /\ ~Escalates(best_score')
  /\ topic' = Fallback
  /\ pc' = "LOW_CONFIDENCE"
  /\ fuzz' = <<>>
  /\ top_candidates' = <<>>
  /\ UNCHANGED <<notion_data, request, user_message, oracle_calls, res,
                 response>>

\* bot.py:69: top_candidates[:4]
Selected(top) == SubSeq(top, 1, IF Len(top) < TopN THEN Len(top) ELSE TopN)

\* bot.py:71-78: c[1]["keywords"] raises KeyError on an item without the key.
SlimRaises(catalog, selected) ==
  \E k \in 1..Len(selected) : "keywords" \notin DOMAIN catalog[selected[k].item]

\* bot.py:62-78: at or above the threshold, building slim_candidates raises.
SlimFault ==
  /\ pc = "LOCAL_SCORED"
  /\ top_candidates # <<>>
  /\ best_score' = top_candidates[1].score
  /\ Escalates(best_score')
  /\ SlimRaises(notion_data, Selected(top_candidates))
  /\ UNCHANGED res
  /\ Fault

\* bot.py:62-122: at or above the threshold the prompt is built and posted.
Escalate ==
  /\ pc = "LOCAL_SCORED"
  /\ top_candidates # <<>>
  /\ best_score' = top_candidates[1].score
  /\ Escalates(best_score')
  /\ ~SlimRaises(notion_data, Selected(top_candidates))
  /\ oracle_calls' = oracle_calls + 1
  /\ pc' = "ESCALATED"
  /\ UNCHANGED <<notion_data, request, user_message, fuzz, top_candidates,
                 res, topic, response>>

\* bot.py:117-150: the post returns, times out or fails, and the try block and
\* its except clauses turn the outcome into the returned topic name.
OracleReturn(r) ==
  /\ pc = "ESCALATED"
  /\ res' = r
  /\ best_score' = best_score
  /\ IF HandleOracle(r).raised
     THEN Fault
     ELSE /\ topic' = HandleOracle(r).value
          /\ pc' = "ORACLE_ANSWERED"
          /\ fuzz' = <<>>
          /\ top_candidates' = <<>>
          /\ UNCHANGED <<notion_data, request, user_message, oracle_calls,
                         response>>

\* bot.py:168-185: respond() turns the topic name into the response.
RespondEnd ==
  /\ pc \in {"LOW_CONFIDENCE", "ORACLE_ANSWERED"}
  /\ response' = Resolve(notion_data, topic, request.user)
  /\ pc' = "DONE"
  /\ UNCHANGED <<notion_data, request, user_message, fuzz, top_candidates,
                 best_score, oracle_calls, res, topic>>

RECURSIVE FuzzInputs(_)
\* The partial_ratio results of one request, one record per catalog item.
FuzzInputs(catalog) ==
  IF catalog = <<>> THEN {<<>>}
  ELSE {<<h>> \o t : h \in FuzzOutcomes(Head(catalog)),
                     t \in FuzzInputs(Tail(catalog))}

Next ==
  \/ pc \in Terminal /\ \E req \in Requests : RespondBegin(req)
  \/ pc = "START" /\ \E f \in FuzzInputs(notion_data) : Score(f)
  \/ BestScoreFault
  \/ LowConfidence
  \/ SlimFault
  \/ Escalate
  \/ pc = "ESCALATED" /\ \E r \in OracleOutcomes : OracleReturn(r)
  \/ RespondEnd

Spec == Init /\ [][Next]_vars

\* ------------------------------------------------------------------ claims
\* The positions at which classify_message() is running or has returned.
Classifying == {"START", "LOCAL_SCORED", "LOW_CONFIDENCE", "ESCALATED",
                "ORACLE_ANSWERED", "DONE"}

\* The catalog positions whose topic equals name ignoring case.
Hits(name) ==
  {i \in 1..Len(notion_data) : Lower(notion_data[i].topic) = Lower(name)}

\* The request went through the gate below the threshold and has ended.
EndedLowConfidence ==
  pc = "DONE" /\ best_score >= 0 /\ best_score < Threshold

\* The match response of respond() for catalog position i.
IsMatchOf(i) ==
  /\ DOMAIN response = {"status", "reply", "topic", "user"}
  /\ response.status = StatusOK
  /\ response.reply = notion_data[i].reply \o Marker \o notion_data[i].link
  /\ response.user = request.user

\* C1 as stated: a request whose top score is below 700 always ends with the
\* match response built from the catalog's "Scholarship" entry, never with
\* the no-match response.
C1_FallbackAlwaysMatches ==
  EndedLowConfidence =>
    /\ response # NoMatchResponse(request.user)
    /\ \E i \in Hits(Scholarship) : IsMatchOf(i)

\* C1 as amended: a request whose top score is below 700 ends with the match
\* response built from the first catalog entry whose topic equals
\* "Scholarship" ignoring case, and with the no-match response when the
\* catalog has no such entry.
C1_FallbackResolvedAgainstCatalog ==
  EndedLowConfidence =>
    IF Hits(Scholarship) = {}
    THEN response = NoMatchResponse(request.user)
    ELSE \E i \in Hits(Scholarship) :
           /\ \A j \in Hits(Scholarship) : i <= j
           /\ IsMatchOf(i)
           /\ response.topic = Scholarship

\* C1's case: a low-confidence request ended with the reply of a fallback
\* entry that is not the only candidate for the name.
C1_Witness ==
  /\ EndedLowConfidence
  /\ best_score = Threshold - 1
  /\ Cardinality(Hits(Scholarship)) >= 2
  /\ \E i \in Hits(Scholarship) : IsMatchOf(i)

\* C2: with a non-empty catalog of well-formed records, no request ends in an
\* unhandled fault.
C2_NoUnhandledFault ==
  notion_data # <<>> => pc # "FAULT"

\* C4: with an empty catalog, every request that was classified ended with
\* the no-match response.
C4_EmptyCatalogNoMatch ==
  (notion_data = <<>> /\ pc \in {"DONE", "FAULT"}) =>
    response = NoMatchResponse(request.user)

\* C5: classification is only ever started for a request that carries the
\* configured secret: a request whose X-Auth-Token is missing or different
\* never reaches classify_message().
C5_ClassifyOnlyAuthorized ==
  request.token # BOT_SECRET => pc \notin Classifying

\* C6: on a non-empty catalog, once the gate has been passed, the oracle has
\* been called exactly when the top score is at least 700.
C6_OracleIffAtLeastThreshold ==
  (notion_data # <<>> /\ best_score >= 0) =>
    (oracle_calls = 1 <=> best_score >= Threshold)

\* The oracle failures C3 lists: timeout, connection error, non-200 status, a
\* body without choices or with an empty choices list, and missing, empty or
\* null answer content (or any other malformed body).
OracleFailed(r) ==
  \/ r.kind \in {"timeout", "connection"}
  \/ r.kind = "response" /\ r.status_code # StatusOK
  \/ r.kind = "response" /\ r.shape \in Shapes
  \/ r.kind = "response" /\ r.shape = "content" /\ r.content = <<>>

\* C3: after an oracle failure the disambiguation step has returned "none"
\* (the request is not in FAULT), and the response, once made, is the
\* no-match response.
C3_OracleFailureDegradesToNone ==
  OracleFailed(res) =>
    /\ pc \in {"ORACLE_ANSWERED", "DONE"}
    /\ topic = None_
    /\ pc = "DONE" => response = NoMatchResponse(request.user)

\* C3's case: a request ended with the no-match response after the oracle
\* answered 200 with null content (the failure only the catch-all handles).
C3_Witness ==
  /\ pc = "DONE"
  /\ res.kind = "response" /\ res.shape = "null_content"
  /\ oracle_calls = 1
  /\ response = NoMatchResponse(request.user)

\* C7: the ranked list holds every catalog entry exactly once with its own
\* score, in non-increasing score order, equal scores in catalog order.
C7_RankedStableDescending ==
  pc \in {"LOCAL_SCORED", "ESCALATED"} =>
    /\ Len(top_candidates) = Len(notion_data)
    /\ \A i \in 1..Len(notion_data) :
         /\ Cardinality({p \in 1..Len(top_candidates) :
                           top_candidates[p].item = i}) = 1
         /\ \E p \in 1..Len(top_candidates) :
              /\ top_candidates[p].item = i
              /\ top_candidates[p].score =
                   weighted_similarity(fuzz[i], notion_data[i])
    /\ \A p, q \in 1..Len(top_candidates) :
         p < q =>
           /\ top_candidates[p].score >= top_candidates[q].score
           /\ top_candidates[p].score = top_candidates[q].score =>
                top_candidates[p].item < top_candidates[q].item

\* C7's case: a ranking that moved a later entry to the front and holds two
\* entries of equal score.
C7_Witness ==
  /\ pc = "LOCAL_SCORED"
  /\ Len(top_candidates) >= 3
  /\ top_candidates[1].item # 1
  /\ \E p, q \in 1..Len(top_candidates) :
       p < q /\ top_candidates[p].score = top_candidates[q].score

\* C8: the response is the no-match response exactly when the topic name is
\* "none" ignoring case or no entry's topic equals it ignoring case; else it
\* is the match response of the first entry, in catalog order, whose topic
\* equals the name ignoring case.
C8_ResolveCaseInsensitiveFirst ==
  pc = "DONE" =>
    /\ response = NoMatchResponse(request.user)
         <=> (Lower(topic) = None_ \/ Hits(topic) = {})
    /\ response # NoMatchResponse(request.user) =>
         \E i \in Hits(topic) :
           /\ \A j \in Hits(topic) : i <= j
           /\ IsMatchOf(i)
           /\ response.topic = topic

\* C8's case: the oracle named the topic in another case than the catalog
\* writes it, and the request ended with a matching entry's reply although a
\* second entry matches too.
C8_Witness ==
  /\ pc = "DONE"
  /\ oracle_calls = 1
  /\ Cardinality(Hits(topic)) >= 2
  /\ \E i \in Hits(topic) : notion_data[i].topic # topic /\ IsMatchOf(i)

\* C9: each request follows START -> LOCAL_SCORED -> (LOW_CONFIDENCE -> DONE)
\* or (ESCALATED -> ORACLE_ANSWERED -> DONE), a new request starting only
\* from a finished one, and issues at most one oracle request.
C9_PipelineSinglePass ==
  [][/\ oracle_calls' <= 1
     /\ pc' # pc =>
          \/ pc \in Terminal /\ pc' \in {"START", "REJECTED"}
          \/ pc = "START" /\ pc' = "LOCAL_SCORED"
          \/ pc = "LOCAL_SCORED" /\ pc' \in {"LOW_CONFIDENCE", "ESCALATED"}
          \/ pc = "LOW_CONFIDENCE" /\ pc' = "DONE"
          \/ pc = "ESCALATED" /\ pc' = "ORACLE_ANSWERED"
          \/ pc = "ORACLE_ANSWERED" /\ pc' = "DONE"]_vars

Quotes == {"\"", "'"}

\* C10: the topic name returned for a non-empty oracle answer neither begins
\* nor ends with whitespace or a quote character and holds no emphasis
\* marker.
C10_ReturnedNameIsClean ==
  (pc = "ORACLE_ANSWERED" /\ res.shape = "content"
     /\ Strip(res.content, Whitespace) # <<>>) =>
    /\ topic # <<>> =>
         /\ topic[1] \notin Whitespace \cup Quotes
         /\ topic[Len(topic)] \notin Whitespace \cup Quotes
    /\ \A i \in 1..Len(topic) : topic[i] # "*"
====
